---- MODULE Spec2Model ----
(***************************************************************************)
(* django-roa: the save / delete protocol of ROAModel                      *)
(* (src/django_roa/db/models.py).  One instance of the leaf type of a      *)
(* multi-table inheritance chain is saved and deleted through an external  *)
(* transport whose answers are nondeterministic.  Model.save() of Django   *)
(* enters save_base with raw = False, cls = None and the two force flags.  *)
(***************************************************************************)
EXTENDS Integers, Sequences, FiniteSets, TLC

\* ---------------------------------------------------------------- bounds
MaxDepth == 1      \* deepest chain: number of concrete ancestors of the leaf
MaxPk == 2         \* largest integer key a response carries

\* ------------------------------------------------------ primary-key values
\* A Python value held by a key attribute: None, an int, or a str (a
\* sequence of one-character strings).
None == [t |-> "None", i |-> 0, s |-> <<>>]
IntPk(n) == [t |-> "int", i |-> n, s |-> <<>>]
StrPk(str) == [t |-> "str", i |-> 0, s |-> str]

DigitChars == <<"0", "1", "2", "3", "4", "5", "6", "7", "8", "9">>

IsDigit(c) == \E d \in 1..10 : DigitChars[d] = c

DigitVal(c) == (CHOOSE d \in 1..10 : DigitChars[d] = c) - 1

RECURSIVE ParseDigits(_)
ParseDigits(str) ==
    IF str = <<>> THEN 0
    ELSE 10 * ParseDigits(SubSeq(str, 1, Len(str) - 1)) + DigitVal(str[Len(str)])

RECURSIVE Digits(_)
Digits(n) ==
    IF n < 10 THEN <<DigitChars[n + 1]>>
    ELSE Digits(n \div 10) \o <<DigitChars[(n % 10) + 1]>>

\* int(v): an int is kept, a str of decimal digits is parsed, any other str
\* raises ValueError and None raises TypeError.
py_int(v) ==
    IF v.t = "int" THEN [err |-> "none", val |-> v.i]
    ELSE IF v.t = "str"
         THEN IF v.s # <<>> /\ \A k \in 1..Len(v.s) : IsDigit(v.s[k])
              THEN [err |-> "none", val |-> ParseDigits(v.s)]
              ELSE [err |-> "ValueError", val |-> 0]
         ELSE [err |-> "TypeError", val |-> 0]

\* "%s" % v
py_str(v) ==
    IF v.t = "int" THEN Digits(v.i)
    ELSE IF v.t = "str" THEN v.s
    ELSE <<"N", "o", "n", "e">>

\* try: self.pk = int(obj.pk) / except ValueError: self.pk = obj.pk
ReconcilePk(objpk) ==
    LET r == py_int(objpk) IN
    IF r.err = "none" THEN [raised |-> "none", pk |-> IntPk(r.val)]
    ELSE IF r.err = "ValueError" THEN [raised |-> "none", pk |-> objpk]
    ELSE [raised |-> "TypeError", pk |-> objpk]

PkAssigned_Always(rec) == TRUE

\* self.pk = int(obj.pk) / except ValueError: self.pk = obj.pk -- the
\* attribute is assigned only when int() returned or raised ValueError.
PkAssigned(rec) == rec.raised = "none"

\* ------------------------------------------------------------ environment
\* The values of ROA_FORMAT a save or delete runs under: one the codec
\* selection accepts and two it does not (xml takes the same path as json).
Formats == {"json", "yaml", "csv"}
PkNames == {"id", "code"}
Kinds == {"plain", "proxy", "auto_created"}
StrKeys == {<<"2">>, <<"a">>}
InitPks == {None, IntPk(1), StrPk(<<"a">>)}
ResponsePks == {None} \cup {IntPk(n) : n \in 1..MaxPk} \cup {StrPk(s) : s \in StrKeys}
Statuses == {200, 202, 204, 404, 500}

VARIABLES
    ROA_FORMAT,     \* module constant read from the settings at import
    depth,          \* number of concrete ancestors of the instance's type
    pkname,         \* attname of the root level's primary-key field
    kind,           \* the instance's type: "plain", a "proxy" of the leaf of
                    \* the chain, or "auto_created" (meta.auto_created)
    attrs,          \* attrs[k]: the instance attribute that is level k's key
    pc,             \* "idle", "probe" or "write"
    level,          \* the level whose save_base frame is running
    force_insert,
    force_update,
    pk_is_set,
    record_exists,
    calls,          \* the transport calls of the current operation, in order
    sigs,           \* the signals sent by the current operation, in order
    result,         \* how the last operation ended, "pending" while it runs
    attrs0,         \* attrs when the current operation was called
    op,             \* "none", "save" or "delete"
    \* -- the request headers (src/django_roa/db/__init__.py)
    ROA_HEADERS,    \* settings.ROA_HEADERS, the static default headers
    roa_headers,    \* _roa_headers: per thread, the attribute value if set
    session,        \* per unit of work, request.session[ROA_SESSION_HEADERS_KEY]
    thread_of,      \* the thread each unit of work runs on
    upc,            \* per unit of work: "idle", "ready" (headers set), "sent"
    sent,           \* per unit of work, the headers of its last request
    hlast,          \* per thread, the last call made on the header store
    \* -- the configuration (settings and the module-level names bound to it)
    settings,       \* django.conf.settings: ROA_FORMAT, ROA_SSL_CA, override tables
    ROA_SSL_CA,     \* module-level name bound at import (models.py:47)
    ROA_URL_OVERRIDES, \* module-level ROA_URL_OVERRIDES_LIST / _COUNT / _DETAIL
    changes,        \* settings changes made since the module was imported
    last,           \* the last codec selection or URL resolution and its outcome
    \* -- the entity types (ROAModelBase.__new__)
    classes,        \* the classes built so far, in order of construction
    built           \* how the last call of the type builder ended

saveVars == <<ROA_FORMAT, depth, pkname, kind, attrs, pc, level, force_insert,
              force_update, pk_is_set, record_exists, calls, sigs, result,
              attrs0, op>>

hdrVars == <<ROA_HEADERS, roa_headers, session, thread_of, upc, sent, hlast>>

confVars == <<settings, ROA_SSL_CA, ROA_URL_OVERRIDES, changes, last>>

buildVars == <<classes, built>>

vars == <<saveVars, hdrVars, confVars, buildVars>>

\* What each component leaves alone: the variables of the other components.
outsideSave == <<hdrVars, confVars, buildVars>>
outsideHeaders == <<saveVars, confVars, buildVars>>
outsideConf == <<saveVars, hdrVars, buildVars>>
outsideBuild == <<saveVars, hdrVars, confVars>>

config == <<ROA_FORMAT, depth, pkname, kind>>

Levels == 0..depth

\* The save_base frames of one save: the concrete levels and, above them,
\* the frame of a proxy type, whose meta.parents holds its concrete base
\* with no parent-pointer field.
Top == IF kind = "proxy" THEN depth + 1 ELSE depth

IsProxyLevel(k) == k > depth

\* The index in attrs of level k's key: a proxy has the key field of its
\* concrete base.
KeyIndex(k) == IF IsProxyLevel(k) THEN depth ELSE k

ProxyDelegates_Off(isproxy) == FALSE

\* if meta.proxy: return
ProxyDelegates(isproxy) == isproxy

PreSaveSent_Always(origin, auto) == origin

\* if origin and not getattr(meta, "auto_created", False)
PreSaveSent(origin, auto) == origin /\ ~auto

PostSaveInstance_Self(selfpk, objpk) == [who |-> "self", pk |-> selfpk]

\* self = obj, then post_save.send(..., instance=self, ...)
PostSaveInstance(selfpk, objpk) == [who |-> "obj", pk |-> objpk]

\* meta.pk.attname of level k: the root's own key field, or the implicit
\* one-to-one parent pointer of a child level.
AttName(k) == IF KeyIndex(k) = 0 THEN pkname ELSE "parent_ptr_id"

\* self.pk of the instance: the key attribute of its own (leaf) level.
SelfPk(a) == a[depth]

UsesCustomPk_Always(attname) == TRUE

\* not meta.pk.attname in ['pk', 'id']
UsesCustomPk(attname) == attname \notin {"pk", "id"}

\* get_renderer / get_serializer_content_type accept ROA_FORMAT
FormatAccepted(fmt) == fmt \in {"json", "xml"}

FlagsConflict_Off(fi, fu) == FALSE

\* assert not (force_insert and force_update)
FlagsConflict(fi, fu) == fi /\ fu

IsUpdate_NoForce(fu, pkset, selfpk) == pkset /\ selfpk # None

\* if force_update or pk_is_set and not self.pk is None
IsUpdate(fu, pkset, selfpk) == fu \/ (pkset /\ selfpk # None)

WriteMethod_Swapped(update) == IF update THEN "POST" ELSE "PUT"

WriteMethod(update) == IF update THEN "PUT" ELSE "POST"

get_resource_url_list == [kind |-> "list", seg |-> <<>>]

get_resource_url_detail(selfpk) == [kind |-> "detail", seg |-> py_str(selfpk)]

WriteUrl(update, selfpk) ==
    IF update THEN get_resource_url_detail(selfpk) ELSE get_resource_url_list

ProbeVerdict_Ignored(out, pkset) == pkset

\* except HTTPError: pk_is_set = False
ProbeVerdict(out, pkset) == IF out = "HTTPError" THEN FALSE ELSE pkset

DeletePrecondition_Off(selfpk) == TRUE

\* assert self._get_pk_val() is not None
DeletePrecondition(selfpk) == selfpk # None

DeleteSucceeded_Any(status) == TRUE

\* response.status_code in [200, 202, 204]
DeleteSucceeded(status) == status \in {200, 202, 204}

\* The parents loop on the way down: a parent's unknown key is filled from
\* the child's parent pointer before the parent level is saved.
RECURSIVE DescendFill(_, _)
DescendFill(a, k) ==
    IF k = 0 THEN a
    ELSE DescendFill(IF a[k - 1] = None /\ a[k] # None
                     THEN [a EXCEPT ![k - 1] = a[k]]
                     ELSE a,
                     k - 1)

Call(method, url, k, a, outcome, status, body, objpk) ==
    [method |-> method, url |-> url, level |-> k, levelpk |-> a[KeyIndex(k)],
     selfpk |-> SelfPk(a), outcome |-> outcome, status |-> status,
     body |-> body, objpk |-> objpk]

\* A signal sent: after is the number of transport calls made before it,
\* instance the object it was sent with and that object's pk.
Signal(name, created, after, instance) ==
    [name |-> name, created |-> created, after |-> after, instance |-> instance]

\* ------------------------------------------------------- request headers
MaxThreads == 2    \* threads the units of work may run on

Units == {1, 2}
Threads == 1..MaxThreads

EmptyMap == [k \in {} |-> ""]
Absent == [set |-> FALSE, val |-> EmptyMap]
Present(h) == [set |-> TRUE, val |-> h]

\* The headers a unit of work passes to set_roa_headers, its credentials.
OwnHeaders(u) == [k \in {"Authorization"} |-> IF u = 1 THEN "token1" ELSE "token2"]

DefaultHeaders ==
    {EmptyMap, [k \in {"Accept"} |-> "any"], [k \in {"Authorization"} |-> "static"]}

py_update_KeepOld(d, o) ==
    [k \in DOMAIN d \cup DOMAIN o |-> IF k \in DOMAIN d THEN d[k] ELSE o[k]]

\* d.update(o)
py_update(d, o) ==
    [k \in DOMAIN d \cup DOMAIN o |-> IF k \in DOMAIN o THEN o[k] ELSE d[k]]

\* getattr(_roa_headers, 'value', {}) on thread t
thread_headers(t) == IF roa_headers[t].set THEN roa_headers[t].val ELSE EmptyMap

\* get_roa_headers() called on thread t
get_roa_headers(t) == py_update(ROA_HEADERS, thread_headers(t))

\* The outcome of a call: the value returned, or the exception raised.
Returned(v) == [exc |-> "none", val |-> v]
Raised(e, novalue) == [exc |-> e, val |-> novalue]

ContentType(mime) == [k \in {"Content-Type"} |-> mime]

\* elif ROAException == 'yaml': an exception class never equals a string
ROAException_is(name) == FALSE

\* get_serializer_content_type() with the module-level ROA_FORMAT = fmt
get_serializer_content_type(fmt) ==
    IF fmt = "json" THEN Returned(ContentType("application/json"))
    ELSE IF fmt = "xml" THEN Returned(ContentType("application/xml"))
    ELSE IF ROAException_is("yaml") THEN Returned(ContentType("text/x-yaml"))
    ELSE Raised("NotImplementedError", EmptyMap)

HdrInit ==
    /\ ROA_HEADERS \in DefaultHeaders
    /\ roa_headers = [t \in Threads |-> Absent]
    /\ session = [u \in Units |-> Absent]
    /\ thread_of \in [Units -> Threads]
    /\ upc = [u \in Units |-> "idle"]
    /\ sent = [u \in Units |-> Absent]
    /\ hlast = [t \in Threads |-> "none"]

\* The header store while the save / delete protocol is examined alone.
HdrParked ==
    /\ ROA_HEADERS = EmptyMap
    /\ roa_headers = [t \in Threads |-> Absent]
    /\ session = [u \in Units |-> Absent]
    /\ thread_of = [u \in Units |-> 1]
    /\ upc = [u \in Units |-> "idle"]
    /\ sent = [u \in Units |-> Absent]
    /\ hlast = [t \in Threads |-> "none"]

\* set_roa_headers(request, headers) by unit u; given says whether a
\* non-empty headers argument is passed.
set_roa_headers(u, given) ==
    LET t == thread_of[u] IN
    /\ upc[u] = "idle"
    /\ IF given
       THEN /\ session' = [session EXCEPT ![u] = Present(OwnHeaders(u))]
            /\ roa_headers' = [roa_headers EXCEPT ![t] = Present(OwnHeaders(u))]
            /\ hlast' = [hlast EXCEPT ![t] = "set_given"]
       ELSE IF session[u].set
       THEN /\ roa_headers' = [roa_headers EXCEPT ![t] = Present(session[u].val)]
            /\ hlast' = [hlast EXCEPT ![t] = "set_session"]
            /\ UNCHANGED session
       ELSE /\ roa_headers' = [roa_headers EXCEPT ![t] = Present(EmptyMap)]
            /\ hlast' = [hlast EXCEPT ![t] = "set_empty"]
            /\ UNCHANGED session
    /\ upc' = [upc EXCEPT ![u] = "ready"]
    /\ UNCHANGED <<outsideHeaders, ROA_HEADERS, thread_of, sent>>

\* save_base / delete by unit u: headers = get_roa_headers();
\* headers.update(self.get_serializer_content_type())
SendRequest(u) ==
    /\ upc[u] = "ready"
    /\ get_serializer_content_type(ROA_FORMAT).exc = "none"
    /\ sent' = [sent EXCEPT ![u] =
                    Present(py_update(get_roa_headers(thread_of[u]),
                                      get_serializer_content_type(ROA_FORMAT).val))]
    /\ upc' = [upc EXCEPT ![u] = "sent"]
    /\ UNCHANGED <<outsideHeaders, ROA_HEADERS, roa_headers, session, thread_of, hlast>>

\* reset_roa_headers() by unit u, at the end of its unit of work
reset_roa_headers(u) ==
    LET t == thread_of[u] IN
    /\ upc[u] \in {"ready", "sent"}
    /\ roa_headers' = [roa_headers EXCEPT ![t] = Absent]
    /\ hlast' = [hlast EXCEPT ![t] = "reset"]
    /\ upc' = [upc EXCEPT ![u] = "idle"]
    /\ UNCHANGED <<outsideHeaders, ROA_HEADERS, session, thread_of, sent>>

\* A unit of work ends without resetting the store.
EndUnit(u) ==
    /\ upc[u] = "sent"
    /\ upc' = [upc EXCEPT ![u] = "idle"]
    /\ UNCHANGED <<outsideHeaders, ROA_HEADERS, roa_headers, session, thread_of, sent, hlast>>

\* --------------------------------------------------------- configuration
MaxChanges == 1    \* settings changes after the module is imported

ConfFormats == {"json", "xml", "yaml", "csv"}
CaBundles == {"none", "ca.pem"}
UrlKinds == {"list", "count", "detail"}

\* Widget declares its three resolvers; Gadget inherits from Widget and
\* redeclares none; Sprocket declares get_resource_url_list only.
EntityTypes == {"Widget", "Gadget", "Sprocket"}

\* '%s.%s' % (opts.app_label, opts.model_name)
KeyOf(t) == IF t = "Widget" THEN "app.widget"
            ELSE IF t = "Gadget" THEN "app.gadget" ELSE "app.sprocket"

ParentOf(t) == IF t = "Gadget" THEN "Widget" ELSE "ROAModel"

Declares(t, urlkind) == t = "Widget" \/ (t = "Sprocket" /\ urlkind = "list")

\* An override table: no entry, or an entry for Widget's key holding a
\* literal URL or (count, detail) a callable.
EmptyTable == [k \in {} |-> "literal"]
OverrideTables(urlkind) ==
    {EmptyTable} \cup
    {[k \in {"app.widget"} |-> form] :
        form \in IF urlkind = "list" THEN {"literal"} ELSE {"literal", "callable"}}

Settings ==
    [ROA_FORMAT : ConfFormats, ROA_SSL_CA : CaBundles,
     ROA_URL_OVERRIDES : {tb \in [UrlKinds -> UNION {OverrideTables(uk) : uk \in UrlKinds}] :
                             \A uk \in UrlKinds : tb[uk] \in OverrideTables(uk)}]

\* The URLs: what a type's declared method returns, what ROAModel's default
\* count / detail methods build on the list URL, and what a table entry gives.
DeclaredUrl(urlkind, t) == [kind |-> urlkind, src |-> "declared", who |-> t, base |-> <<>>]
DefaultUrl(urlkind, listurl) ==
    [kind |-> urlkind, src |-> "default", who |-> "ROAModel",
     base |-> <<listurl.src, listurl.who>>]
OverrideUrl(urlkind, key) == [kind |-> urlkind, src |-> "override", who |-> key, base |-> <<>>]
NoUrl == [kind |-> "none", src |-> "none", who |-> "none", base |-> <<>>]

RECURSIVE curried_get_resource_url(_, _, _, _)
RECURSIVE ROAModel_get_resource_url(_, _, _)

\* cls.get_resource_url_<kind> before _prepare wraps it: the method the type
\* declares, else the attribute it inherits (the parent's wrapper, or
\* ROAModel's method).
ClassAttribute(tables, urlkind, t, inst) ==
    IF Declares(t, urlkind) THEN Returned(DeclaredUrl(urlkind, t))
    ELSE IF ParentOf(t) = "ROAModel" THEN ROAModel_get_resource_url(tables, urlkind, inst)
    ELSE curried_get_resource_url(tables, urlkind, ParentOf(t), inst)

\* ROAModel.get_resource_url_list / _count / _detail of an instance of inst
ROAModel_get_resource_url(tables, urlkind, inst) ==
    IF urlkind = "list" THEN Raised("Exception", NoUrl)
    ELSE LET listurl == curried_get_resource_url(tables, "list", inst, inst)
         IN IF listurl.exc = "none" THEN Returned(DefaultUrl(urlkind, listurl.val))
            ELSE listurl

\* The module-level get_resource_url_list / _count / _detail(opts, func, ...)
\* that _prepare installs on type t, called for an instance of inst.
curried_get_resource_url(tables, urlkind, t, inst) ==
    LET key == KeyOf(t)
        table == tables[urlkind]
        func == ClassAttribute(tables, urlkind, t, inst)
    IN IF urlkind = "list"
       THEN \* overridden and overridden or func(*args, **kwargs)
            IF key \in DOMAIN table THEN Returned(OverrideUrl(urlkind, key)) ELSE func
       ELSE \* ROA_URL_OVERRIDES_X.get(key, func)(self, *args, **kwargs)
            IF key \in DOMAIN table
            THEN IF table[key] = "callable"
                 THEN Returned(OverrideUrl(urlkind, key))
                 ELSE Raised("TypeError", NoUrl)
            ELSE func

\* get_renderer() / get_parser() with the module-level ROA_FORMAT = fmt
get_renderer(fmt) ==
    IF fmt = "json" THEN Returned("JSONRenderer")
    ELSE IF fmt = "xml" THEN Returned("XMLRenderer")
    ELSE IF ROAException_is("yaml") THEN Returned("YAMLRenderer")
    ELSE Raised("NotImplementedError", "")

get_parser(fmt) ==
    IF fmt = "json" THEN Returned("JSONParser")
    ELSE IF fmt = "xml" THEN Returned("XMLParser")
    ELSE IF ROAException_is("yaml") THEN Returned("YAMLParser")
    ELSE Raised("NotImplementedError", "")

NoCodec == [renderer |-> Raised("none", ""), parser |-> Raised("none", ""),
            content_type |-> Raised("none", EmptyMap)]

NoCall == [op |-> "none", kind |-> "none", type |-> "none",
           url |-> Raised("none", NoUrl), codec |-> NoCodec,
           used |-> <<>>, conf |-> <<>>]

\* Import of django_roa.db.models: the module-level names are bound to the
\* settings of that moment.
ConfInit ==
    /\ settings \in Settings
    /\ ROA_FORMAT = settings.ROA_FORMAT
    /\ ROA_SSL_CA = settings.ROA_SSL_CA
    /\ ROA_URL_OVERRIDES = settings.ROA_URL_OVERRIDES
    /\ changes = 0
    /\ last = NoCall

\* The configuration while another component is examined alone.
ConfParked ==
    /\ settings = [ROA_FORMAT |-> ROA_FORMAT, ROA_SSL_CA |-> "none",
                   ROA_URL_OVERRIDES |-> [uk \in UrlKinds |-> EmptyTable]]
    /\ ROA_SSL_CA = "none"
    /\ ROA_URL_OVERRIDES = [uk \in UrlKinds |-> EmptyTable]
    /\ changes = 0
    /\ last = NoCall

\* settings.ROA_FORMAT = fmt, after the import
SetFormat(fmt) ==
    /\ changes < MaxChanges
    /\ fmt # settings.ROA_FORMAT
    /\ settings' = [settings EXCEPT !.ROA_FORMAT = fmt]
    /\ changes' = changes + 1
    /\ UNCHANGED <<outsideConf, ROA_SSL_CA, ROA_URL_OVERRIDES, last>>

\* settings.ROA_SSL_CA = ca, after the import
SetSslCa(ca) ==
    /\ changes < MaxChanges
    /\ ca # settings.ROA_SSL_CA
    /\ settings' = [settings EXCEPT !.ROA_SSL_CA = ca]
    /\ changes' = changes + 1
    /\ UNCHANGED <<outsideConf, ROA_SSL_CA, ROA_URL_OVERRIDES, last>>

\* settings.ROA_URL_OVERRIDES_<KIND> = table, after the import
SetOverrides(urlkind, table) ==
    /\ changes < MaxChanges
    /\ table # settings.ROA_URL_OVERRIDES[urlkind]
    /\ settings' = [settings EXCEPT !.ROA_URL_OVERRIDES[urlkind] = table]
    /\ changes' = changes + 1
    /\ UNCHANGED <<outsideConf, ROA_SSL_CA, ROA_URL_OVERRIDES, last>>

\* A save or delete selects its codec and its verify argument.
SelectCodec ==
    /\ last' = [NoCall EXCEPT
                  !.op = "select",
                  !.codec = [renderer |-> get_renderer(ROA_FORMAT),
                             parser |-> get_parser(ROA_FORMAT),
                             content_type |-> get_serializer_content_type(ROA_FORMAT)],
                  !.used = <<ROA_FORMAT, ROA_SSL_CA>>,
                  !.conf = <<settings.ROA_FORMAT, settings.ROA_SSL_CA>>]
    /\ UNCHANGED <<outsideConf, settings, ROA_SSL_CA, ROA_URL_OVERRIDES, changes>>

\* instance.get_resource_url_<kind>() on an instance of type t
ResolveUrl(urlkind, t) ==
    /\ last' = [NoCall EXCEPT
                  !.op = "resolve", !.kind = urlkind, !.type = t,
                  !.url = curried_get_resource_url(ROA_URL_OVERRIDES, urlkind, t, t),
                  !.used = <<ROA_URL_OVERRIDES[urlkind]>>,
                  !.conf = <<settings.ROA_URL_OVERRIDES[urlkind]>>]
    /\ UNCHANGED <<outsideConf, settings, ROA_SSL_CA, ROA_URL_OVERRIDES, changes>>

\* ------------------------------------------------------------ type builder
MaxTypes == 3      \* classes built
MaxBases == 2      \* model bases a class statement names

TypeKinds == {"concrete", "abstract", "proxy"}

\* A field is named by a declared name, or is the parent link
\* '%s_ptr' % base._meta.model_name to the concrete class i.
Field(n) == <<n, 0>>
PtrField(i) == <<"ptr", i>>
DeclarableFields == {Field("name")}

Built == 1..Len(classes)

AbstractBases(bases) == {b \in bases : classes[b].kind = "abstract"}
ConcreteBases(bases) == {b \in bases : classes[b].kind # "abstract"}

\* The three TypeError checks of the proxy set-up.
ProxyError(bases) ==
    \/ \E b \in AbstractBases(bases) : classes[b].fields # {}
    \/ Cardinality(ConcreteBases(bases)) > 1
    \/ ConcreteBases(bases) = {}

\* field.name in field_names, for a field of base._meta.local_fields of
\* one of the bases
FieldClash(bases, declared) ==
    \E b \in bases : classes[b].local_fields \cap declared # {}

\* new_class._meta.parents: the concrete model of each concrete base, and
\* the parents the abstract bases pass on.
MetaParents(bases) ==
    {classes[b].concrete : b \in ConcreteBases(bases)}
        \cup UNION {classes[b].parents : b \in AbstractBases(bases)}

\* new_class._meta.local_fields after the parents loop
LocalFields(typekind, bases, declared) ==
    declared
        \cup (IF typekind = "proxy" THEN {}
              ELSE {PtrField(classes[b].concrete) : b \in ConcreteBases(bases)})
        \cup UNION {classes[b].local_fields : b \in AbstractBases(bases)}

NewClass(typekind, bases, declared) ==
    LET self == Len(classes) + 1
        local == LocalFields(typekind, bases, declared)
    IN [kind |-> typekind,
        bases |-> bases,
        declared |-> declared,
        local_fields |-> local,
        fields |-> local \cup UNION {classes[q].fields : q \in MetaParents(bases)},
        parents |-> MetaParents(bases),
        concrete |-> IF typekind = "proxy"
                     THEN classes[CHOOSE b \in ConcreteBases(bases) : TRUE].concrete
                     ELSE self,
        registered |-> typekind # "abstract"]

\* ROAModelBase._new_recent_django(name, bases, attrs): how it ends
new_recent_django(typekind, bases, declared) ==
    IF typekind = "proxy" /\ ProxyError(bases) THEN "TypeError"
    ELSE IF FieldClash(bases, declared) THEN "FieldError"
    ELSE "ok"

BuildInit ==
    /\ classes = <<>>
    /\ built = "none"

\* The type builder while another component is examined alone.
BuildParked == BuildInit

\* A class statement: class X(bases) with the declared fields and Meta,
\* the bases being classes built before.
Build(typekind, declared) ==
    /\ Len(classes) < MaxTypes
    /\ \E bases \in SUBSET Built :
          /\ Cardinality(bases) <= MaxBases
          /\ built' = new_recent_django(typekind, bases, declared)
          /\ classes' = IF built' = "ok"
                        THEN Append(classes, NewClass(typekind, bases, declared))
                        ELSE classes
    /\ UNCHANGED outsideBuild

\* ------------------------------------------------------ save and delete
Init ==
    /\ HdrParked
    /\ BuildParked
    /\ ROA_FORMAT \in Formats
    /\ ConfParked
    /\ depth \in 0..MaxDepth
    /\ pkname \in PkNames
    /\ kind \in Kinds
    /\ kind = "auto_created" => depth = 0
    /\ attrs \in [0..depth -> InitPks]
    /\ pc = "idle"
    /\ level = 0
    /\ force_insert = FALSE
    /\ force_update = FALSE
    /\ pk_is_set = FALSE
    /\ record_exists = FALSE
    /\ calls = <<>>
    /\ sigs = <<>>
    /\ result = "none"
    /\ attrs0 = attrs
    /\ op = "none"

\* The operation ends: by returning ("ok") or by raising res.
Finish(res) ==
    /\ pc' = "idle"
    /\ result' = res
    /\ level' = 0
    /\ pk_is_set' = FALSE

\* The frame of level k starts on the attributes attrs': pk_val, pk_is_set,
\* the payload through get_renderer, then the probe or the write.
EnterLevel(k) ==
    IF FormatAccepted(ROA_FORMAT)
    THEN /\ level' = k
         /\ pk_is_set' = (attrs'[KeyIndex(k)] # None)
         /\ pc' = IF UsesCustomPk(AttName(k)) THEN "probe" ELSE "write"
         /\ result' = "pending"
    ELSE Finish("NotImplementedError")

save(fi, fu) ==
    /\ pc = "idle"
    /\ op' = "save"
    /\ force_insert' = fi
    /\ force_update' = fu
    /\ attrs0' = attrs
    /\ calls' = <<>>
    /\ record_exists' = FALSE
    /\ IF FlagsConflict(fi, fu)
       THEN /\ sigs' = <<>>
            /\ attrs' = attrs
            /\ Finish("AssertionError")
       ELSE \* origin is the class of a plain instance; a proxy's own frame
            \* has no origin and passes its class as origin to the frame of
            \* its concrete base, which runs the same test
            /\ sigs' = IF PreSaveSent(TRUE, kind = "auto_created")
                       THEN <<Signal("pre_save", FALSE, 0,
                                     [who |-> "self", pk |-> SelfPk(attrs)])>>
                       ELSE <<>>
            /\ attrs' = DescendFill(attrs, depth)
            /\ EnterLevel(0)
    /\ UNCHANGED <<config, outsideSave>>

ProbeOutcomes == {"ok", "HTTPError", "ConnectionError"}

Probe(out) ==
    /\ pc = "probe"
    /\ calls' = Append(calls, Call("GET", get_resource_url_detail(SelfPk(attrs)),
                                   level, attrs, out, 0, "none", None))
    /\ IF out \in {"ok", "HTTPError"}
       THEN /\ pc' = "write"
            /\ pk_is_set' = ProbeVerdict(out, pk_is_set)
            /\ UNCHANGED <<level, result>>
       ELSE Finish(out)
    /\ UNCHANGED <<outsideSave, config, attrs, force_insert, force_update, record_exists,
                   sigs, attrs0, op>>

WriteOutcomes ==
    {[outcome |-> o, body |-> "none", objpk |-> None] :
        o \in {"HTTPError", "ConnectionError"}}
    \cup {[outcome |-> "ok", body |-> b, objpk |-> None] :
        b \in {"unparsable", "invalid"}}
    \cup {[outcome |-> "ok", body |-> "valid", objpk |-> p] : p \in ResponsePks}

Write(w) ==
    /\ pc = "write"
    /\ LET \* the recursive call for a parent passes no force flag
           fu == force_update /\ level = Top
           update == IsUpdate(fu, pk_is_set, SelfPk(attrs))
           rec == ReconcilePk(w.objpk)
           reconciled == [attrs EXCEPT ![depth] = rec.pk]
       IN
       /\ record_exists' = update
       /\ calls' = Append(calls, Call(WriteMethod(update),
                                      WriteUrl(update, SelfPk(attrs)),
                                      level, attrs, w.outcome, 0, w.body, w.objpk))
       /\ IF w.outcome = "HTTPError"
          THEN /\ Finish("ROAException")
               /\ UNCHANGED <<attrs, sigs>>
          ELSE IF w.outcome # "ok"
          THEN /\ Finish(w.outcome)
               /\ UNCHANGED <<attrs, sigs>>
          ELSE IF w.body = "unparsable"
          THEN /\ Finish("ParseError")
               /\ UNCHANGED <<attrs, sigs>>
          ELSE IF w.body = "invalid"
          THEN /\ Finish("ROAException")
               /\ UNCHANGED <<attrs, sigs>>
          ELSE IF rec.raised # "none"
          THEN /\ Finish(rec.raised)
               /\ attrs' = IF PkAssigned(rec) THEN reconciled ELSE attrs
               /\ UNCHANGED sigs
          ELSE IF level < depth
          THEN \* back in the child's parents loop: the parent pointer is
               \* set from the parent level's key attribute
               /\ attrs' = [reconciled EXCEPT ![level + 1] = reconciled[level]]
               /\ EnterLevel(level + 1)
               /\ UNCHANGED sigs
          ELSE IF level = depth
          THEN \* the frame that was given an origin sends post_save
               /\ attrs' = reconciled
               /\ sigs' = Append(sigs,
                            Signal("post_save", ~update, Len(calls) + 1,
                                   PostSaveInstance(rec.pk, w.objpk)))
               /\ IF level < Top /\ ~ProxyDelegates(IsProxyLevel(level + 1))
                  THEN EnterLevel(level + 1)
                  ELSE Finish("ok")
          ELSE \* the frame of a proxy has no origin
               /\ attrs' = reconciled
               /\ UNCHANGED sigs
               /\ Finish("ok")
    /\ UNCHANGED <<outsideSave, config, force_insert, force_update, attrs0, op>>

DeleteOutcomes ==
    {[outcome |-> o, status |-> 0] : o \in {"HTTPError", "ConnectionError"}}
    \cup {[outcome |-> "ok", status |-> s] : s \in Statuses}

delete(d) ==
    /\ pc = "idle"
    /\ op' = "delete"
    /\ attrs0' = attrs
    /\ sigs' = <<>>
    /\ force_insert' = FALSE
    /\ force_update' = FALSE
    /\ record_exists' = FALSE
    /\ IF ~DeletePrecondition(SelfPk(attrs))
       THEN /\ Finish("AssertionError")
            /\ calls' = <<>>
            /\ attrs' = attrs
       ELSE IF ~FormatAccepted(ROA_FORMAT)
       THEN /\ Finish("NotImplementedError")
            /\ calls' = <<>>
            /\ attrs' = attrs
       ELSE /\ calls' = <<Call("DELETE", get_resource_url_detail(SelfPk(attrs)),
                               depth, attrs, d.outcome, d.status, "none", None)>>
            /\ IF d.outcome # "ok"
               THEN /\ Finish(d.outcome)
                    /\ attrs' = attrs
               ELSE /\ Finish("ok")
                    /\ attrs' = IF DeleteSucceeded(d.status)
                                THEN [attrs EXCEPT ![depth] = None]
                                ELSE attrs
    /\ UNCHANGED <<config, outsideSave>>

Next ==
    \/ \E fi \in BOOLEAN, fu \in BOOLEAN : save(fi, fu)
    \/ \E out \in ProbeOutcomes : Probe(out)
    \/ \E w \in WriteOutcomes : Write(w)
    \/ \E d \in DeleteOutcomes : delete(d)

Spec == Init /\ [][Next]_vars

\* The save / delete variables while another component is examined alone.
SaveIdle ==
    /\ depth = 0
    /\ pkname = "id"
    /\ kind = "plain"
    /\ attrs = [k \in 0..0 |-> None]
    /\ pc = "idle"
    /\ level = 0
    /\ force_insert = FALSE
    /\ force_update = FALSE
    /\ pk_is_set = FALSE
    /\ record_exists = FALSE
    /\ calls = <<>>
    /\ sigs = <<>>
    /\ result = "none"
    /\ attrs0 = attrs
    /\ op = "none"

SaveParked == ROA_FORMAT = "json" /\ SaveIdle

\* Two units of work using the header store, each on its thread or both on
\* one thread (tasks of one thread, or requests a worker thread serves).
InitHeaders == SaveParked /\ ConfParked /\ BuildParked /\ HdrInit

NextHeaders ==
    \/ \E u \in Units, given \in BOOLEAN : set_roa_headers(u, given)
    \/ \E u \in Units : SendRequest(u)
    \/ \E u \in Units : reset_roa_headers(u)
    \/ \E u \in Units : EndUnit(u)

SpecHeaders == InitHeaders /\ [][NextHeaders]_vars

\* The module imported under some settings, the settings changed afterwards,
\* codecs selected and URLs resolved.
InitConf == ConfInit /\ SaveIdle /\ HdrParked /\ BuildParked

NextConf ==
    \/ \E fmt \in ConfFormats : SetFormat(fmt)
    \/ \E ca \in CaBundles : SetSslCa(ca)
    \/ \E uk \in UrlKinds : \E table \in OverrideTables(uk) : SetOverrides(uk, table)
    \/ SelectCodec
    \/ \E uk \in UrlKinds, t \in EntityTypes : ResolveUrl(uk, t)

SpecConf == InitConf /\ [][NextConf]_vars

\* Class statements executed one after the other, each naming classes
\* built before it as bases.
InitBuild == SaveParked /\ ConfParked /\ HdrParked /\ BuildInit

NextBuild ==
    \E typekind \in TypeKinds, declared \in SUBSET DeclarableFields :
        Build(typekind, declared)

SpecBuild == InitBuild /\ [][NextBuild]_vars

\* ------------------------------------------------- reading the call log
IsWrite(e) == e.method \in {"PUT", "POST"}

WriteIdx == {i \in 1..Len(calls) : IsWrite(calls[i])}

ProbeIdx == {i \in 1..Len(calls) : calls[i].method = "GET"}

CountMethod(m) == Cardinality({i \in 1..Len(calls) : calls[i].method = m})

\* The HTTPError of a probe at the level of the write calls[i].
ProbeFailedBefore(i) ==
    \E j \in 1..(i - 1) : /\ calls[j].method = "GET"
                          /\ calls[j].level = calls[i].level
                          /\ calls[j].outcome = "HTTPError"

\* force_update as the save_base frame of level k received it: the
\* recursive call for an ancestor passes no force flag.
ForceUpdateAt(k) == force_update /\ k = Top

\* The operation has ended before any write was dispatched.
EndedBeforeWrite == pc = "idle" /\ WriteIdx = {}

\* The value the claim expects on the instance for a response key p.
ExpectedPk(p) == IF py_int(p).err = "none" THEN IntPk(py_int(p).val) ELSE p

\* C1: every write a save dispatches at a level is a PUT to the detail URL
\* exactly when force_update was passed to that level's save, or the level's
\* key was present, its probe (if any) did not fail with HTTPError and
\* self.pk is not None; otherwise it is a POST to the list URL.  A level
\* dispatches at most one write, and whatever force_insert is.
C1_DispatchRule ==
    op = "save" =>
        /\ \A i \in WriteIdx :
              LET e == calls[i]
                  confirmed == e.levelpk # None /\ ~ProbeFailedBefore(i)
                  update == ForceUpdateAt(e.level) \/ (confirmed /\ e.selfpk # None)
              IN IF update
                 THEN e.method = "PUT" /\ e.url = get_resource_url_detail(e.selfpk)
                 ELSE e.method = "POST" /\ e.url = get_resource_url_list
        /\ \A i, j \in WriteIdx : calls[i].level = calls[j].level => i = j
        /\ result = "ok" => \A k \in Levels : \E i \in WriteIdx : calls[i].level = k

C1_Witness ==
    /\ op = "save" /\ result = "ok" /\ force_insert /\ depth = 0
    /\ attrs0[0] # None
    /\ \E i \in WriteIdx : calls[i].method = "PUT"

\* C2 as stated: no ancestors, key absent, any admissible flags: exactly one
\* POST and never a PUT.
C2_Original ==
    (op = "save" /\ depth = 0 /\ attrs0[0] = None
        /\ ~(force_insert /\ force_update)) =>
        /\ CountMethod("PUT") = 0
        /\ (pc = "idle" /\ ~EndedBeforeWrite) => CountMethod("POST") = 1

\* C2 amended: no ancestors, key absent, force_update not set: never a PUT,
\* never more than one POST, each POST to the list URL, and exactly one POST
\* once the save has got as far as its write.
C2_CreateWhenPkAbsent ==
    (op = "save" /\ depth = 0 /\ attrs0[0] = None /\ ~force_update) =>
        /\ CountMethod("PUT") = 0
        /\ CountMethod("POST") <= 1
        /\ \A i \in WriteIdx : calls[i].url = get_resource_url_list
        /\ (pc = "idle" /\ ~EndedBeforeWrite) => CountMethod("POST") = 1

C2_Witness ==
    /\ op = "save" /\ depth = 0 /\ attrs0[0] = None /\ force_insert
    /\ result = "ok" /\ CountMethod("POST") = 1

\* C3: a save called with force_insert and force_update both set has raised
\* AssertionError with no transport call made, no signal sent and the
\* instance as it was.
C3_ConflictingFlagsRaise ==
    (op = "save" /\ force_insert /\ force_update) =>
        /\ pc = "idle"
        /\ result = "AssertionError"
        /\ calls = <<>>
        /\ sigs = <<>>
        /\ attrs = attrs0

C3_Witness ==
    /\ op = "save" /\ force_insert /\ force_update /\ result = "AssertionError"
    /\ attrs0[depth] # None

C5_WriteFailuresWrapped ==
    op = "save" =>
        /\ \A i \in WriteIdx :
              (calls[i].outcome = "HTTPError" \/ calls[i].body = "invalid") =>
                  pc = "idle" /\ result = "ROAException" /\ i = Len(calls)
        /\ (pc = "idle" /\ WriteIdx # {} /\ result # "ok") =>
              result = "ROAException"

\* C6 as stated: once a write's response has deserialized, reconciling the
\* key does not raise, and after a successful save self.pk is the integer of
\* the response's key when it is numeric-coercible and the raw key otherwise.
C6_PkReconciled ==
    (op = "save" /\ pc = "idle" /\ calls # <<>>
        /\ calls[Len(calls)].body = "valid") =>
        /\ result = "ok"
        /\ SelfPk(attrs) = ExpectedPk(calls[Len(calls)].objpk)

\* C7: a delete makes at most one call, a DELETE to the detail URL of the key
\* the instance had; it makes exactly one unless it raised before the call;
\* a 200, 202 or 204 answer clears self.pk, any other status leaves the
\* instance as it was, and in both cases delete returns.
C7_DeleteByStatus ==
    op = "delete" =>
        /\ Len(calls) <= 1
        /\ result \notin {"AssertionError", "NotImplementedError"} => Len(calls) = 1
        /\ \A i \in 1..Len(calls) :
              LET e == calls[i] IN
              /\ e.method = "DELETE"
              /\ e.url = get_resource_url_detail(SelfPk(attrs0))
              /\ e.outcome = "ok" =>
                    /\ result = "ok"
                    /\ IF e.status \in {200, 202, 204}
                       THEN attrs = [attrs0 EXCEPT ![depth] = None]
                       ELSE attrs = attrs0

C7_Witness ==
    /\ op = "delete" /\ result = "ok" /\ Len(calls) = 1
    /\ calls[1].status = 500 /\ SelfPk(attrs) # None

\* C8: a delete called on an instance whose self.pk is None raises
\* AssertionError without a transport call; no DELETE is ever sent for an
\* absent key.
C8_DeleteNeedsPk ==
    /\ (op = "delete" /\ SelfPk(attrs0) = None) =>
          result = "AssertionError" /\ calls = <<>> /\ attrs = attrs0
    /\ \A i \in 1..Len(calls) :
          calls[i].method = "DELETE" => calls[i].selfpk # None

C8_Witness ==
    op = "delete" /\ SelfPk(attrs0) = None /\ result = "AssertionError"

\* C9 as stated: a save or delete makes at most one call per level, and the
\* calls of a save go level by level from the root to the leaf.
C9_Original ==
    /\ \A i, j \in 1..Len(calls) : calls[i].level = calls[j].level => i = j
    /\ \A i, j \in 1..Len(calls) : i < j => calls[i].level <= calls[j].level

\* C9 amended: per level a save makes at most one write (PUT or POST),
\* preceded by at most one GET probe, the probe being made only at a level
\* whose key field is not named id or pk (a custom key, or the parent pointer
\* of a child level); a delete makes at most one call; the calls of a save go
\* level by level from the root to the leaf.
C9_OneWritePerLevel ==
    /\ \A i, j \in WriteIdx : calls[i].level = calls[j].level => i = j
    /\ \A i, j \in ProbeIdx : calls[i].level = calls[j].level => i = j
    /\ \A i \in ProbeIdx :
          /\ calls[i].level >= 1 \/ pkname \notin {"id", "pk"}
          /\ \A j \in WriteIdx : calls[j].level = calls[i].level => i < j
    /\ \A i, j \in 1..Len(calls) : i < j => calls[i].level <= calls[j].level
    /\ op = "delete" => Len(calls) <= 1

C9_Witness ==
    /\ op = "save" /\ result = "ok" /\ depth >= 1 /\ pkname = "id"
    /\ Len(calls) = 2 * depth + 1
    /\ calls[1].method = "POST" /\ calls[2].method = "GET"

\* C10 as stated: a completed save of the leaf of a chain with depth
\* ancestors has made depth + 1 calls, one per level from the root to the
\* leaf, and the leaf's parent pointer is the key the root level's response
\* carried.
C10_ChainSave ==
    (op = "save" /\ result = "ok" /\ depth >= 1) =>
        /\ Len(calls) = depth + 1
        /\ \A k \in Levels : calls[k + 1].level = k
        /\ attrs[depth] = ExpectedPk(calls[1].objpk)

\* ----------------------------------------------------- reading the signals
SigIdx(name) == {i \in 1..Len(sigs) : sigs[i].name = name}

\* C11: a save of a proxy instance makes no transport call in the frame of
\* the proxy type: every call is made by the frames of its concrete base
\* (levels 0..depth), and a save that returns has as its last call the write
\* of the concrete base itself, followed only by post_save.
C11_ProxyDelegates ==
    (op = "save" /\ kind = "proxy") =>
        /\ \A i \in 1..Len(calls) : calls[i].level <= depth
        /\ result = "ok" =>
              /\ calls # <<>>
              /\ IsWrite(calls[Len(calls)])
              /\ calls[Len(calls)].level = depth
              /\ \A i \in SigIdx("post_save") : sigs[i].after = Len(calls)

C11_Witness ==
    /\ op = "save" /\ kind = "proxy" /\ result = "ok" /\ depth >= 1
    /\ Len(calls) >= 2

\* C12: in a save that has returned, pre_save was sent before the first
\* transport call unless the type is auto-created, in which case it was not
\* sent; exactly one post_save was sent, after the last call, with created
\* true exactly when the write of the concrete level was a POST, and with the
\* instance deserialized from that write's response, not the caller's.
C12_SignalsAroundCalls ==
    (op = "save" /\ result = "ok") =>
        /\ IF kind = "auto_created"
           THEN SigIdx("pre_save") = {}
           ELSE /\ SigIdx("pre_save") = {1}
                /\ sigs[1].after = 0
                /\ sigs[1].instance.who = "self"
        /\ SigIdx("post_save") = {Len(sigs)}
        /\ LET post == sigs[Len(sigs)]
               w == calls[Len(calls)]
           IN /\ post.after = Len(calls)
              /\ IsWrite(w) /\ w.level = depth
              /\ post.created = (w.method = "POST")
              /\ post.instance = [who |-> "obj", pk |-> w.objpk]

C12_Witness ==
    /\ op = "save" /\ result = "ok" /\ Len(sigs) = 2
    /\ sigs[2].created
    /\ sigs[2].instance.pk # SelfPk(attrs)


\* ---------------------------------------------------------------- C13
\* C13: on every thread the headers get_roa_headers returns hold exactly the
\* keys of the static defaults and of the thread's overlay, with the
\* overlay's value wherever both have the key; and when the last call on the
\* thread's store was reset_roa_headers, or set_roa_headers with no headers
\* given and none kept in the session, they are exactly the static defaults.
C13_DefaultsOverlaid ==
    \A t \in Threads :
        LET got == get_roa_headers(t)
            over == IF roa_headers[t].set THEN roa_headers[t].val ELSE EmptyMap
        IN /\ DOMAIN got = DOMAIN ROA_HEADERS \cup DOMAIN over
           /\ \A k \in DOMAIN over : got[k] = over[k]
           /\ \A k \in DOMAIN ROA_HEADERS \ DOMAIN over : got[k] = ROA_HEADERS[k]
           /\ hlast[t] \in {"reset", "set_empty"} => got = ROA_HEADERS

\* A unit of work has set its headers on a thread whose overlay and static
\* defaults both hold Authorization.
C13_Witness ==
    \E t \in Threads :
        /\ roa_headers[t].set
        /\ "Authorization" \in DOMAIN roa_headers[t].val
        /\ "Authorization" \in DOMAIN ROA_HEADERS
        /\ \E u \in Units : thread_of[u] = t /\ upc[u] = "ready"

\* ---------------------------------------------------------------- C14
\* C14: every header of the request a unit of work sends, after setting its
\* own headers, comes from the static defaults, from the unit's own overlay
\* or from the content type; no header of the other unit appears in it.
C14_UnitsIsolated ==
    \A u \in Units :
        sent[u].set =>
            \A k \in DOMAIN sent[u].val :
                \/ k \in DOMAIN OwnHeaders(u) /\ sent[u].val[k] = OwnHeaders(u)[k]
                \/ k \in DOMAIN ROA_HEADERS /\ sent[u].val[k] = ROA_HEADERS[k]
                \/ k = "Content-Type"

\* ---------------------------------------------------------------- C15
\* C15: resolving a kind for a type that declares the resolver returns
\* exactly the override URL when the table of that kind holds a literal URL
\* for the type's key, and what the declared resolver returns when the table
\* has no entry for the key.
C15_OverrideOrDeclared ==
    (last.op = "resolve" /\ Declares(last.type, last.kind)) =>
        LET key == KeyOf(last.type)
            table == ROA_URL_OVERRIDES[last.kind]
        IN /\ (key \in DOMAIN table /\ table[key] = "literal") =>
                  last.url = Returned(OverrideUrl(last.kind, key))
           /\ key \notin DOMAIN table =>
                  last.url = Returned(DeclaredUrl(last.kind, last.type))

\* ---------------------------------------------------------------- C16
\* C16: the URL resolved for a type is the one resolved when the tables hold
\* no entry under any other type's key, also for a type that inherits the
\* resolver of an overridden type without redeclaring it.
OnlyKey(tables, key) ==
    [uk \in UrlKinds |-> [k \in DOMAIN tables[uk] \cap {key} |-> tables[uk][k]]]

C16_OtherKeysUnaffected ==
    last.op = "resolve" =>
        last.url = curried_get_resource_url(
                       OnlyKey(ROA_URL_OVERRIDES, KeyOf(last.type)),
                       last.kind, last.type, last.type)

\* ---------------------------------------------------------------- C17
\* C17: for the format names json, xml and yaml the selector returns the
\* encoder, the decoder and the Content-Type header of that format; for any
\* other name, and only then, the three selections fail.
C17_CodecsAgree ==
    last.op = "select" =>
        LET fmt == last.used[1]
            c == last.codec
        IN CASE fmt = "json" ->
                  /\ c.renderer = Returned("JSONRenderer")
                  /\ c.parser = Returned("JSONParser")
                  /\ c.content_type = Returned(ContentType("application/json"))
             [] fmt = "xml" ->
                  /\ c.renderer = Returned("XMLRenderer")
                  /\ c.parser = Returned("XMLParser")
                  /\ c.content_type = Returned(ContentType("application/xml"))
             [] fmt = "yaml" ->
                  /\ c.renderer = Returned("YAMLRenderer")
                  /\ c.parser = Returned("YAMLParser")
                  /\ c.content_type = Returned(ContentType("text/x-yaml"))
             [] OTHER ->
                  /\ c.renderer.exc # "none"
                  /\ c.parser.exc # "none"
                  /\ c.content_type.exc # "none"

\* ---------------------------------------------------------------- C18
\* C18: every codec selection and URL resolution uses the configuration
\* values the settings hold at the time of the call.
C18_ReadAtCallTime == last.op # "none" => last.used = last.conf

\* ---------------------------------------------------------------- C19
\* C19: no class the builder has produced declares a field whose name is the
\* name of a field of one of its ancestors, direct or distant, abstract or
\* concrete: every such class statement is rejected.
RECURSIVE Ancestors(_)
Ancestors(bases) ==
    bases \cup UNION {Ancestors(classes[b].bases) : b \in bases}

C19_FieldClashRejected ==
    \A c \in Built :
        \A a \in Ancestors(classes[c].bases) :
            classes[c].declared \cap classes[a].declared = {}

\* ---------------------------------------------------------------- C20
\* C20: every proxy class the builder has produced has exactly one
\* non-abstract base, no abstract base that carries fields, and declares no
\* field of its own.
C20_ProxyWellFormed ==
    \A c \in Built :
        classes[c].kind = "proxy" =>
            /\ Cardinality(ConcreteBases(classes[c].bases)) = 1
            /\ \A b \in AbstractBases(classes[c].bases) : classes[b].fields = {}
            /\ classes[c].declared = {}

\* ---------------------------------------------------------------- C21
\* C21: when the save of an instance of a type with no ancestors has raised
\* (conflicting flags, codec selection, probe or write transport error,
\* undecodable or invalid response, key reconciliation), self.pk is the
\* value it had when save was called and no post_save was sent.
C21_FailedSaveLeavesPk ==
    (op = "save" /\ depth = 0 /\ kind # "proxy" /\ pc = "idle"
        /\ result \notin {"none", "ok"}) =>
        /\ SelfPk(attrs) = SelfPk(attrs0)
        /\ SigIdx("post_save") = {}

\* A forced update of an instance with a key whose PUT answered a valid body
\* with no key: the reconciliation raised TypeError.
C21_Witness ==
    /\ op = "save" /\ depth = 0 /\ kind = "plain" /\ pc = "idle"
    /\ result = "TypeError"
    /\ calls # <<>> /\ calls[Len(calls)].method = "PUT"
    /\ SelfPk(attrs0) # None
====
